---- MODULE Spec2Model ----
(***************************************************************************)
(* Messaging between web content and an extension frame: the connection    *)
(* registry (connect), the connection handle (ExtConnection.request) and   *)
(* the global message listener (handleMessage).                            *)
(*                                                                         *)
(* Objects with identity (promises, connections) live in heaps that are    *)
(* sequences; a reference is an index into the heap.  The resolve/reject   *)
(* closures of a promise are represented by the promise's reference: the   *)
(* two closures stored in connectionsRequested[o] or responseHandlers[k]   *)
(* both settle that one promise, and a promise settles at most once.       *)
(***************************************************************************)
EXTENDS Integers, Sequences, FiniteSets, TLC

(* ---------------------------- bounds ----------------------------------- *)

\* request calls made over a run
MaxRequests == 2
\* ExtConnection constructor calls made over a run
MaxConnections == 2

\* origins of extension frames, as event.origin serialises them
Origins == {"x://a", "x://b"}
\* window proxies that may appear as event.source
Windows == {"W1", "W2"}
\* request bodies, opaque to this code
Requests == {"keys"}
\* response bodies, opaque to this code
Bodies == {"ping", "pong"}
\* error values a responder returns
Errs == {"denied"}
\* ids carried by inbound responses: every id a connection can allocate
\* and one more that no connection allocates
Ids == 0 .. MaxRequests

(* ------------------------ message protocol ----------------------------- *)

MESSAGE_TYPE_READY == "ready"
MESSAGE_TYPE_REQUEST == "request"
MESSAGE_TYPE_RESPONSE == "response"

\* the value of a property that an object does not have
UNDEFINED == "undefined"

(* --------------------------- JS values --------------------------------- *)

\* values a promise is settled with
UndefinedValue == [kind |-> "undefined", ref |-> 0, v |-> ""]
ConnectionValue(c) == [kind |-> "connection", ref |-> c, v |-> ""]
DataValue(b) == [kind |-> "data", ref |-> 0, v |-> b]

\* o[f] for an object o: the property, or undefined when o lacks it
Field(o, f) == IF f \in DOMAIN o THEN DataValue(o[f]) ELSE UndefinedValue

\* an assignment that replaces the whole object by {[k]: v}
PutOnly(m, k, v) == [x \in {k} |-> v]

\* obj[k] = v
Put(m, k, v) == [x \in DOMAIN m \cup {k} |-> IF x = k THEN v ELSE m[x]]

\* a delete that leaves the property in place
DeleteKeeps(m, k) == m

\* delete obj[k]
Delete(m, k) == [x \in DOMAIN m \ {k} |-> m[x]]

EmptyMap == [x \in {} |-> 0]

\* new Promise(...): a promise whose executor has not settled it
PendingPromise == [state |-> "pending", value |-> UndefinedValue]

\* resolve(v) of promise p: settles p unless p is already settled
Resolve(ps, p, v) ==
    IF ps[p].state = "pending"
    THEN [ps EXCEPT ![p] = [state |-> "resolved", value |-> v]]
    ELSE ps

\* reject bound to the promise's resolve function
RejectResolves(ps, p, v) ==
    IF ps[p].state = "pending"
    THEN [ps EXCEPT ![p] = [state |-> "resolved", value |-> v]]
    ELSE ps

\* reject(v) of promise p: settles p unless p is already settled
Reject(ps, p, v) ==
    IF ps[p].state = "pending"
    THEN [ps EXCEPT ![p] = [state |-> "rejected", value |-> v]]
    ELSE ps

(* ------------------------- inbound events ------------------------------ *)

\* event.data values: what a sender may pass to postMessage
ReadyData == {[kind |-> "object", obj |-> [type |-> MESSAGE_TYPE_READY]]}

ResponseData ==
    {[kind |-> "object",
      obj |-> [type |-> MESSAGE_TYPE_RESPONSE, id |-> i, body |-> b]] :
        i \in Ids, b \in Bodies}
    \cup
    {[kind |-> "object",
      obj |-> [type |-> MESSAGE_TYPE_RESPONSE, id |-> i, err |-> x]] :
        i \in Ids, x \in Errs}
    \cup
    {[kind |-> "object",
      obj |-> [type |-> MESSAGE_TYPE_RESPONSE, id |-> 0, body |-> b, err |-> x]] :
        b \in {"ping"}, x \in Errs}
    \cup
    {[kind |-> "object", obj |-> [type |-> MESSAGE_TYPE_RESPONSE]]}

ForeignData ==
    {[kind |-> "object", obj |-> [type |-> "other"]],
     [kind |-> "object", obj |-> [id |-> 0, body |-> "ping"]],
     [kind |-> "string"],
     [kind |-> "null"],
     [kind |-> "undefined"]}

Events ==
    {[origin |-> o, source |-> w, data |-> d] :
        o \in Origins, w \in Windows, d \in ReadyData}
    \cup
    {[origin |-> o, source |-> w, data |-> d] :
        o \in Origins, w \in {"W1"}, d \in ResponseData \cup ForeignData}

(* ------------------------------ state ---------------------------------- *)

VARIABLES
    addedMessageListener,   \* the module flag
    listeners,              \* 'message' listeners registered on the window
    connectionsPromised,    \* origin -> promise
    connectionsRequested,   \* origin -> resolve/reject closures of a promise
    responseHandlers,       \* handler key -> resolve/reject closures
    promises,               \* heap of promises
    connections,            \* heap of ExtConnection objects
    constructed,            \* calls of the ExtConnection constructor
    iframes,                \* children appended to document.body
    posted,                 \* postMessage calls made on window proxies
    issued,                 \* the request calls made so far, in call order
    connectReturns,         \* origin -> the promises connect has returned
    last,                   \* the call that produced this state
    ret,                    \* what that call returned (a reference, or 0)
    raised                  \* what that call threw ("none" when it returned)

vars == <<addedMessageListener, listeners, connectionsPromised,
          connectionsRequested, responseHandlers, promises, connections,
          constructed, iframes, posted, issued, connectReturns, last, ret,
          raised>>

\* the module state and everything reachable from it
tables == <<connectionsPromised, connectionsRequested, responseHandlers,
            promises, connections>>

Init ==
    /\ addedMessageListener = FALSE
    /\ listeners = 0
    /\ connectionsPromised = EmptyMap
    /\ connectionsRequested = EmptyMap
    /\ responseHandlers = EmptyMap
    /\ promises = <<>>
    /\ connections = <<>>
    /\ constructed = 0
    /\ iframes = <<>>
    /\ posted = <<>>
    /\ issued = <<>>
    /\ connectReturns = EmptyMap
    /\ last = [op |-> "init", origin |-> UNDEFINED, type |-> UNDEFINED,
                hit |-> FALSE]
    /\ ret = 0
    /\ raised = "none"

(* -------------------------- ExtConnection ------------------------------ *)

\* a constructor that starts the counter at 1
ExtConnectionFromOne(origin, messageFrame) ==
    [origin |-> origin, messageFrame |-> messageFrame, nextId |-> 1]

ExtConnection(origin, messageFrame) ==
    [origin |-> origin, messageFrame |-> messageFrame, nextId |-> 0]

\* a key that leaves the origin out
handlerKeyNoOrigin(origin, id) == id

\* a key that leaves the id out
handlerKeyNoId(origin, id) == origin \o "/"

\* `${origin}/${id}` where id is already stringified
handlerKey(origin, id) == origin \o "/" \o id

\* `${reqId}` for the number a connection allocates
NumStr(n) == ToString(n)

\* `${m.id + 1}`: the id of an inbound message read off by one
IdStrNext(m) == IF "id" \in DOMAIN m THEN ToString(m.id + 1) ELSE UNDEFINED

\* `${m.id}` for an inbound message m
IdStr(m) == IF "id" \in DOMAIN m THEN ToString(m.id) ELSE UNDEFINED

\* a REQUEST message that carries the incremented counter as its id
MessageRequestNextId(reqId, req) ==
    [type |-> MESSAGE_TYPE_REQUEST, id |-> reqId + 1, body |-> req]

\* the REQUEST message of request(req)
MessageRequest(reqId, req) ==
    [type |-> MESSAGE_TYPE_REQUEST, id |-> reqId, body |-> req]

\* const reqId = this.nextId, the increment forgotten
AllocateSame(conn) == [reqId |-> conn.nextId, nextId |-> conn.nextId]

\* const reqId = this.nextId++
Allocate(conn) == [reqId |-> conn.nextId, nextId |-> conn.nextId + 1]

\* request that posts its message without restricting the recipient
requestToAnyOrigin(c, req) ==
    LET conn == connections[c]
        reqId == Allocate(conn).reqId
        key == handlerKey(conn.origin, NumStr(reqId))
        p == Len(promises) + 1
    IN  /\ promises' = Append(promises, PendingPromise)
        /\ connections' = [connections EXCEPT ![c].nextId = Allocate(conn).nextId]
        /\ responseHandlers' = Put(responseHandlers, key, p)
        /\ posted' = Append(posted,
                            [target |-> conn.messageFrame,
                             message |-> MessageRequest(reqId, req),
                             targetOrigin |-> "*"])
        /\ ret' = p
        /\ raised' = "none"
        /\ issued' = Append(issued, [connection |-> c, id |-> reqId,
                                     req |-> req, promise |-> p])
        /\ last' = [op |-> "request", origin |-> conn.origin,
                     type |-> MESSAGE_TYPE_REQUEST, hit |-> FALSE]
        /\ UNCHANGED <<addedMessageListener, listeners, connectionsPromised,
                       connectionsRequested, constructed, iframes,
                       connectReturns>>

\* connection.request(req) on the connection object c
request(c, req) ==
    LET conn == connections[c]
        reqId == Allocate(conn).reqId
        key == handlerKey(conn.origin, NumStr(reqId))
        p == Len(promises) + 1
    IN  /\ promises' = Append(promises, PendingPromise)
        /\ connections' = [connections EXCEPT ![c].nextId = Allocate(conn).nextId]
        /\ responseHandlers' = Put(responseHandlers, key, p)
        /\ posted' = Append(posted,
                            [target |-> conn.messageFrame,
                             message |-> MessageRequest(reqId, req),
                             targetOrigin |-> conn.origin])
        /\ ret' = p
        /\ raised' = "none"
        /\ issued' = Append(issued, [connection |-> c, id |-> reqId,
                                     req |-> req, promise |-> p])
        /\ last' = [op |-> "request", origin |-> conn.origin,
                     type |-> MESSAGE_TYPE_REQUEST, hit |-> FALSE]
        /\ UNCHANGED <<addedMessageListener, listeners, connectionsPromised,
                       connectionsRequested, constructed, iframes,
                       connectReturns>>

(* --------------------------- handleMessage ----------------------------- *)

\* e.data.type: TypeError when e.data is null or undefined, undefined when
\* e.data has no such property
Throws(data) == data.kind \in {"null", "undefined"}

messageType(data) ==
    IF data.kind = "object" /\ "type" \in DOMAIN data.obj
    THEN data.obj.type
    ELSE UNDEFINED

\* some promise holds a reference to the connection object c; an object
\* that nothing refers to is not part of the heap
Referenced(ps, c) ==
    \E p \in DOMAIN ps : ps[p].value = ConnectionValue(c)

\* the lookup of handleMessage(e) finds a slot (READY) or an entry (RESPONSE)
Hit(e) ==
    /\ ~Throws(e.data)
    /\ \/ /\ messageType(e.data) = MESSAGE_TYPE_READY
          /\ e.origin \in DOMAIN connectionsRequested
       \/ /\ messageType(e.data) = MESSAGE_TYPE_RESPONSE
          /\ handlerKey(e.origin, IdStr(e.data.obj)) \in DOMAIN responseHandlers

\* READY handling that constructs the connection before looking for a slot
handleReadyEager(e) ==
    LET connection == Len(connections) + 1
        settled == IF e.origin \in DOMAIN connectionsRequested
                   THEN Resolve(promises, connectionsRequested[e.origin],
                                ConnectionValue(connection))
                   ELSE promises
    IN  /\ constructed' = constructed + 1
        /\ promises' = settled
        /\ connections' =
               IF Referenced(settled, connection)
               THEN Append(connections, ExtConnection(e.origin, e.source))
               ELSE connections
        /\ UNCHANGED responseHandlers

\* READY handling that resolves whichever slot it finds, not the slot of
\* the event's origin
handleReadyAnySlot(e) ==
    IF DOMAIN connectionsRequested = {}
    THEN UNCHANGED <<promises, connections, constructed, responseHandlers>>
    ELSE LET connection == Len(connections) + 1
             slot == CHOOSE o \in DOMAIN connectionsRequested : TRUE
             settled == Resolve(promises, connectionsRequested[slot],
                                ConnectionValue(connection))
         IN  /\ constructed' = constructed + 1
             /\ promises' = settled
             /\ connections' =
                    IF Referenced(settled, connection)
                    THEN Append(connections,
                                ExtConnection(e.origin, e.source))
                    ELSE connections
             /\ UNCHANGED responseHandlers

handleReady(e) ==
    IF e.origin \notin DOMAIN connectionsRequested
    THEN UNCHANGED <<promises, connections, constructed, responseHandlers>>
    ELSE LET connection == Len(connections) + 1
             settled == Resolve(promises, connectionsRequested[e.origin],
                                ConnectionValue(connection))
         IN  /\ constructed' = constructed + 1
             /\ promises' = settled
             /\ connections' =
                    IF Referenced(settled, connection)
                    THEN Append(connections,
                                ExtConnection(e.origin, e.source))
                    ELSE connections
             /\ UNCHANGED responseHandlers

handleResponse(e) ==
    LET m == e.data.obj
        key == handlerKey(e.origin, IdStr(m))
    IN  IF key \notin DOMAIN responseHandlers
        THEN UNCHANGED <<promises, connections, constructed, responseHandlers>>
        ELSE /\ responseHandlers' = Delete(responseHandlers, key)
             /\ promises' =
                    IF "err" \in DOMAIN m
                    THEN Reject(promises, responseHandlers[key],
                                Field(m, "err"))
                    ELSE Resolve(promises, responseHandlers[key],
                                 Field(m, "body"))
             /\ UNCHANGED <<connections, constructed>>

handleMessage(e) ==
    /\ last' = [op |-> "handleMessage", origin |-> e.origin,
                 type |-> IF Throws(e.data) THEN "TypeError"
                          ELSE messageType(e.data),
                 hit |-> Hit(e)]
    /\ ret' = 0
    /\ UNCHANGED <<addedMessageListener, listeners, connectionsPromised,
                   connectionsRequested, iframes, posted, issued,
                   connectReturns>>
    /\ IF Throws(e.data)
       THEN /\ raised' = "TypeError"
            /\ UNCHANGED <<promises, connections, constructed, responseHandlers>>
       ELSE /\ raised' = "none"
            /\ CASE messageType(e.data) = MESSAGE_TYPE_READY ->
                        handleReady(e)
                 [] messageType(e.data) = MESSAGE_TYPE_RESPONSE ->
                        handleResponse(e)
                 [] OTHER ->
                        UNCHANGED <<promises, connections, constructed, responseHandlers>>

(* ------------------------------ connect -------------------------------- *)

Iframe(origin) ==
    [src |-> origin \o "/oasis-xu-frame.html", hidden |-> TRUE]

\* connect without the inventory lookup: a new promise, slot and iframe on
\* every call
connectAnew(origin) ==
    /\ addedMessageListener' = TRUE
    /\ listeners' = IF addedMessageListener THEN listeners ELSE listeners + 1
    /\ LET p == Len(promises) + 1
       IN  /\ promises' = Append(promises, PendingPromise)
           /\ connectionsRequested' = Put(connectionsRequested, origin, p)
           /\ connectionsPromised' = Put(connectionsPromised, origin, p)
           /\ iframes' = Append(iframes, Iframe(origin))
    /\ ret' = connectionsPromised'[origin]
    /\ connectReturns' =
            Put(connectReturns, origin,
                (IF origin \in DOMAIN connectReturns
                 THEN connectReturns[origin] ELSE {}) \cup {ret'})
    /\ raised' = "none"
    /\ last' = [op |-> "connect", origin |-> origin, type |-> UNDEFINED,
                 hit |-> origin \in DOMAIN connectionsPromised]
    /\ UNCHANGED <<responseHandlers, connections, constructed, posted,
                   issued>>

\* connect that adds the listener on every call
connectRelisten(origin) ==
    /\ addedMessageListener' = TRUE
    /\ listeners' = listeners + 1
    /\ IF origin \notin DOMAIN connectionsPromised
       THEN LET p == Len(promises) + 1
            IN  /\ promises' = Append(promises, PendingPromise)
                /\ connectionsRequested' = Put(connectionsRequested, origin, p)
                /\ connectionsPromised' = Put(connectionsPromised, origin, p)
                /\ iframes' = Append(iframes, Iframe(origin))
       ELSE UNCHANGED <<promises, connectionsRequested, connectionsPromised,
                        iframes>>
    /\ ret' = connectionsPromised'[origin]
    /\ connectReturns' =
            Put(connectReturns, origin,
                (IF origin \in DOMAIN connectReturns
                 THEN connectReturns[origin] ELSE {}) \cup {ret'})
    /\ raised' = "none"
    /\ last' = [op |-> "connect", origin |-> origin, type |-> UNDEFINED,
                 hit |-> origin \in DOMAIN connectionsPromised]
    /\ UNCHANGED <<responseHandlers, connections, constructed, posted,
                   issued>>

connect(origin) ==
    /\ addedMessageListener' = TRUE
    /\ listeners' = IF addedMessageListener THEN listeners ELSE listeners + 1
    /\ IF origin \notin DOMAIN connectionsPromised
       THEN LET p == Len(promises) + 1
            IN  /\ promises' = Append(promises, PendingPromise)
                /\ connectionsRequested' = Put(connectionsRequested, origin, p)
                /\ connectionsPromised' = Put(connectionsPromised, origin, p)
                /\ iframes' = Append(iframes, Iframe(origin))
       ELSE UNCHANGED <<promises, connectionsRequested, connectionsPromised,
                        iframes>>
    /\ ret' = connectionsPromised'[origin]
    /\ connectReturns' =
            Put(connectReturns, origin,
                (IF origin \in DOMAIN connectReturns
                 THEN connectReturns[origin] ELSE {}) \cup {ret'})
    /\ raised' = "none"
    /\ last' = [op |-> "connect", origin |-> origin, type |-> UNDEFINED,
                 hit |-> origin \in DOMAIN connectionsPromised]
    /\ UNCHANGED <<responseHandlers, connections, constructed, posted,
                   issued>>

(* ---------------------------- the program ------------------------------ *)

\* connections a caller holds: the values of resolved connect promises
Held ==
    {promises[connectionsPromised[o]].value.ref :
        o \in {x \in DOMAIN connectionsPromised :
                 promises[connectionsPromised[x]].state = "resolved"}}

Connect == \E origin \in Origins : connect(origin)

Request ==
    \E c \in Held, req \in Requests :
        /\ Len(posted) < MaxRequests
        /\ request(c, req)

\* handleMessage(e) reaches the constructor call
Constructs(e) ==
    /\ ~Throws(e.data)
    /\ messageType(e.data) = MESSAGE_TYPE_READY
    /\ e.origin \in DOMAIN connectionsRequested

\* the window dispatches an inbound message event to its listeners
Deliver ==
    \E e \in Events :
        /\ listeners > 0
        /\ Constructs(e) => constructed < MaxConnections
        /\ handleMessage(e)

Next == Connect \/ Request \/ Deliver

Spec == Init /\ [][Next]_vars

(* ------------------- the program with its extension -------------------- *)

\* the extension frame loaded by the iframe of origin O signals readiness:
\* its READY is delivered to the listener while connect(O) is waiting
ExtReady(O) ==
    /\ listeners > 0
    /\ O \in DOMAIN connectionsPromised
    /\ \E i \in DOMAIN iframes : iframes[i] = Iframe(O)
    /\ promises[connectionsPromised[O]].state = "pending"
    /\ \E w \in Windows, d \in ReadyData :
          handleMessage([origin |-> O, source |-> w, data |-> d])

\* the extension frame of origin O answers the REQUEST with id i that was
\* posted to it and is still unanswered: its RESPONSE, with a body or with
\* an error, is delivered to the listener
ExtResponse(O, i) ==
    /\ listeners > 0
    /\ \E j \in DOMAIN posted :
          /\ posted[j].targetOrigin = O
          /\ posted[j].message.id = i
          /\ promises[issued[j].promise].state = "pending"
          /\ \E d \in ResponseData :
                /\ "id" \in DOMAIN d.obj
                /\ d.obj.id = i
                /\ ~("body" \in DOMAIN d.obj /\ "err" \in DOMAIN d.obj)
                /\ handleMessage([origin |-> O, source |-> posted[j].target,
                                  data |-> d])

ExtReadies == \E O \in Origins : ExtReady(O)

ExtResponds == \E O \in Origins, i \in Ids : ExtResponse(O, i)

LiveNext == Connect \/ Request \/ ExtReadies \/ ExtResponds

\* every message an extension frame sends is eventually delivered
Fairness ==
    /\ \A O \in Origins : WF_vars(ExtReady(O))
    /\ \A O \in Origins, i \in Ids : WF_vars(ExtResponse(O, i))

LiveSpec == Init /\ [][LiveNext]_vars /\ Fairness

(* ------------------------- claims: helpers ----------------------------- *)

\* the last element of a non-empty sequence
Final(seq) == seq[Len(seq)]

\* the iframes whose src is the well-known page under origin O
FramesOf(O) ==
    {i \in DOMAIN iframes :
        iframes[i] = [src |-> O \o "/oasis-xu-frame.html", hidden |-> TRUE]}

\* the request calls made on connection c, in call order
IssuedOn(c) == SelectSeq(issued, LAMBDA r : r.connection = c)

\* the step is a call of handleMessage with a READY message
ReadyStep == last'.op = "handleMessage" /\ last'.type = MESSAGE_TYPE_READY

\* the step is a call of handleMessage with a RESPONSE message
ResponseStep ==
    last'.op = "handleMessage" /\ last'.type = MESSAGE_TYPE_RESPONSE

(* ------------------------------ C1 ------------------------------------- *)

\* C1: connect is idempotent per origin.  Every call connect(O) has returned
\* the same promise, which is the one the slot of O settles; there is one
\* slot per origin connect was called with, and one hidden iframe with src
\* O + "/oasis-xu-frame.html" per such origin and no other iframe.
C1_ConnectIdempotent ==
    /\ \A O \in DOMAIN connectReturns :
          /\ Cardinality(connectReturns[O]) = 1
          /\ O \in DOMAIN connectionsPromised
          /\ O \in DOMAIN connectionsRequested
          /\ connectReturns[O] = {connectionsPromised[O]}
          /\ connectReturns[O] = {connectionsRequested[O]}
          /\ Cardinality(FramesOf(O)) = 1
    /\ DOMAIN connectionsRequested = DOMAIN connectReturns
    /\ Len(iframes) = Cardinality(DOMAIN connectReturns)

\* connect was called with two origins, and again for one of them after its
\* READY had resolved the promise
C1_Witness ==
    /\ last.op = "connect"
    /\ last.hit
    /\ promises[ret].state = "resolved"
    /\ Cardinality(DOMAIN connectReturns) = 2

(* ------------------------------ C2 ------------------------------------- *)

\* C2: a READY from origin O with source window W, handled while the slot
\* of O exists and the promise of connect(O) is pending, resolves that
\* promise with a Connection whose origin is O, whose window is W and whose
\* request-id counter is 0.
C2_Handshake ==
    [][\A e \in Events :
          ( /\ ReadyStep
            /\ e.origin = last'.origin
            /\ e.data \in ReadyData
            /\ handleMessage(e)
            /\ e.origin \in DOMAIN connectionsPromised
            /\ promises[connectionsPromised[e.origin]].state = "pending" )
          => LET q == promises'[connectionsPromised[e.origin]]
             IN  /\ q.state = "resolved"
                 /\ q.value.kind = "connection"
                 /\ q.value.ref \in DOMAIN connections'
                 /\ connections'[q.value.ref] =
                        [origin |-> e.origin, messageFrame |-> e.source,
                         nextId |-> 0]]_vars

\* the READY just handled resolved the promise of its origin with a
\* connection bound to window W2
C2_Witness ==
    /\ last.op = "handleMessage"
    /\ last.type = MESSAGE_TYPE_READY
    /\ last.hit
    /\ last.origin \in DOMAIN connectionsPromised
    /\ LET q == promises[connectionsPromised[last.origin]]
       IN  /\ q.state = "resolved"
           /\ connections[q.value.ref].messageFrame = "W2"
           /\ connections[q.value.ref].nextId = 0
    /\ constructed = 1

(* ------------------------------ C3 ------------------------------------- *)

\* C3: the ids allocated by successive request calls on one connection are
\* 0, 1, 2, ... in call order (so pairwise distinct, strictly increasing and
\* never reused, whatever responses arrived in between), and a request call
\* adds an entry to the pending-request table without replacing one.
C3_IdsInv ==
    \A c \in DOMAIN connections :
        \A k \in DOMAIN IssuedOn(c) : IssuedOn(c)[k].id = k - 1

C3_FreshIds ==
    /\ []C3_IdsInv
    /\ [][last'.op = "request" =>
            /\ Cardinality(DOMAIN responseHandlers') =
                   Cardinality(DOMAIN responseHandlers) + 1
            /\ \A k \in DOMAIN responseHandlers :
                   /\ k \in DOMAIN responseHandlers'
                   /\ responseHandlers'[k] = responseHandlers[k]]_vars

\* a second request was issued on a connection after the response to its
\* first request had arrived
C3_Witness ==
    /\ last.op = "request"
    /\ Len(issued) = 2
    /\ issued[1].connection = issued[2].connection
    /\ promises[issued[1].promise].state = "resolved"
    /\ promises[issued[2].promise].state = "pending"

(* ------------------------------ C4 ------------------------------------- *)

\* C4: a call request(body) on a connection bound to origin O and window W
\* takes the connection's counter as the id and increments the counter,
\* inserts the one entry keyed (O, id), posts the one message
\* {type: request, id, body} to W with target origin O, and returns a promise
\* that is pending when the call returns.
C4_RequestStep ==
    [][last'.op = "request" =>
          LET r == Final(issued')
              conn == connections[r.connection]
          IN  /\ Len(issued') = Len(issued) + 1
              /\ r.id = conn.nextId
              /\ connections' =
                    [connections EXCEPT ![r.connection].nextId = conn.nextId + 1]
              /\ responseHandlers' =
                    Put(responseHandlers,
                        conn.origin \o "/" \o ToString(r.id), r.promise)
              /\ (conn.origin \o "/" \o ToString(r.id))
                    \notin DOMAIN responseHandlers
              /\ posted' =
                    Append(posted,
                           [target |-> conn.messageFrame,
                            message |-> [type |-> "request", id |-> r.id,
                                         body |-> r.req],
                            targetOrigin |-> conn.origin])
              /\ ret' = r.promise
              /\ ret' \notin DOMAIN promises
              /\ promises'[ret'].state = "pending"
              /\ raised' = "none"]_vars

\* the second request on a connection has just been made: id 1 was posted to
\* the connection's window and the returned promise is pending
C4_Witness ==
    /\ last.op = "request"
    /\ Len(posted) = 2
    /\ posted[2].message.id = 1
    /\ posted[2].targetOrigin = last.origin
    /\ promises[ret].state = "pending"

(* ------------------------------ C5 ------------------------------------- *)

\* the request call r is outstanding and the RESPONSE event e carries its
\* origin and id
Answers(e, r) ==
    /\ promises[r.promise].state = "pending"
    /\ e.origin = connections[r.connection].origin
    /\ e.data.kind = "object"
    /\ "id" \in DOMAIN e.data.obj
    /\ e.data.obj.id = r.id

\* the events of this step: RESPONSE events of the step's origin that
\* handleMessage takes from the state before to the state after
ResponseOfStep(e) ==
    /\ ResponseStep
    /\ e.origin = last'.origin
    /\ e.data \in ResponseData
    /\ handleMessage(e)

\* what is observable of the module besides the call's own outcome
observable == <<addedMessageListener, listeners, connectionsPromised,
                connectionsRequested, responseHandlers, promises,
                connections, constructed, iframes, posted>>

\* C5: for an outstanding request with id I on the connection bound to O, a
\* RESPONSE from O carrying {id: I, body: B} resolves its promise with B,
\* one carrying {id: I, err: E} rejects it with E, and in either case the
\* promise ends in exactly one of the two settled states.
C5_ResponseSettles ==
    [][ResponseStep =>
          \A k \in DOMAIN issued :
            promises[issued[k].promise].state = "pending" =>
            \A e \in Events :
              (Answers(e, issued[k]) /\ ResponseOfStep(e)) =>
                  LET m == e.data.obj
                      q == promises'[issued[k].promise]
                  IN  /\ q.state \in {"resolved", "rejected"}
                      /\ ("err" \notin DOMAIN m) =>
                            q = [state |-> "resolved",
                                 value |-> [kind |-> "data", ref |-> 0,
                                            v |-> m.body]]
                      /\ ("body" \notin DOMAIN m) =>
                            q = [state |-> "rejected",
                                 value |-> [kind |-> "data", ref |-> 0,
                                            v |-> m.err]]]_vars

\* a RESPONSE has just settled a request; one request was rejected with the
\* responder's error and another resolved with a body
C5_Witness ==
    /\ last.op = "handleMessage"
    /\ last.type = MESSAGE_TYPE_RESPONSE
    /\ last.hit
    /\ \E j, k \in DOMAIN issued :
          /\ promises[issued[j].promise] =
                [state |-> "rejected", value |-> DataValue("denied")]
          /\ promises[issued[k].promise] =
                [state |-> "resolved", value |-> DataValue("pong")]

(* ------------------------------ C6 ------------------------------------- *)

\* C6: responses are matched by (origin, id), not by arrival order.  When a
\* RESPONSE is handled, the only request promise that changes is the one of
\* the request with the event's origin and id, and it takes the body or the
\* error of that event.
C6_MatchedByKey ==
    [][(ResponseStep /\ promises' # promises) =>
          \A e \in Events : ResponseOfStep(e) =>
              \A k \in DOMAIN issued :
                  LET r == issued[k]
                      m == e.data.obj
                  IN  promises'[r.promise] # promises[r.promise] =>
                          /\ "id" \in DOMAIN m
                          /\ m.id = r.id
                          /\ e.origin = connections[r.connection].origin
                          /\ promises'[r.promise].value =
                                [kind |-> "data", ref |-> 0,
                                 v |-> IF "err" \in DOMAIN m THEN m.err
                                       ELSE m.body]]_vars

\* two requests are outstanding and the response to the later one has just
\* been handled first: the later one is settled, the earlier one is pending
C6_Witness ==
    /\ last.op = "handleMessage"
    /\ last.type = MESSAGE_TYPE_RESPONSE
    /\ last.hit
    /\ Len(issued) = 2
    /\ promises[issued[1].promise].state = "pending"
    /\ promises[issued[2].promise].state = "resolved"

(* ------------------------------ C7 ------------------------------------- *)

\* C7: a RESPONSE from origin O whose id has no pending entry (O, id), the id
\* never requested on O's connection or its request already settled, changes
\* nothing: not the pending-request table, not any promise, not any counter,
\* not any slot; and it raises no error.  (A step that handles a RESPONSE
\* either changes nothing and raises nothing, or every event it can be
\* handling answers an outstanding request.)
C7_UnmatchedResponse ==
    [][ResponseStep =>
          \/ UNCHANGED observable /\ raised' = "none"
          \/ \A e \in Events : ResponseOfStep(e) =>
                 \E k \in DOMAIN issued : Answers(e, issued[k])]_vars

\* a RESPONSE that matched nothing has just been handled, while one request
\* was already settled and another was still pending
C7_Witness ==
    /\ last.op = "handleMessage"
    /\ last.type = MESSAGE_TYPE_RESPONSE
    /\ ~last.hit
    /\ \E j, k \in DOMAIN issued :
          /\ promises[issued[j].promise].state # "pending"
          /\ promises[issued[k].promise].state = "pending"

(* ------------------------------ C8 ------------------------------------- *)

\* C8: a READY from an origin for which connect has never been called
\* changes nothing: no connection is constructed, no slot, promise or iframe
\* appears, and everything of the other origins is as before.
C8_StrayReady ==
    [][(ReadyStep /\ last'.origin \notin DOMAIN connectReturns)
          => /\ UNCHANGED observable
             /\ raised' = "none"]_vars

\* a READY from an origin never connected to has just been handled, while
\* the listener was installed and a request of another origin was pending
C8_Witness ==
    /\ last.op = "handleMessage"
    /\ last.type = MESSAGE_TYPE_READY
    /\ last.origin \notin DOMAIN connectReturns
    /\ listeners = 1
    /\ DOMAIN responseHandlers # {}

(* ------------------------------ C9 ------------------------------------- *)

\* C9: the promise of connect(O) is pending or resolved with a Connection of
\* origin O, never rejected; and its state changes only in a step that
\* handles a READY whose event origin is O, so without such a step it stays
\* pending.
C9_PendingOrConnection ==
    \A O \in DOMAIN connectionsPromised :
        LET q == promises[connectionsPromised[O]]
        IN  \/ q = [state |-> "pending", value |-> UndefinedValue]
            \/ /\ q.state = "resolved"
               /\ q.value.kind = "connection"
               /\ q.value.ref \in DOMAIN connections
               /\ connections[q.value.ref].origin = O

C9_ConnectPromise ==
    /\ []C9_PendingOrConnection
    /\ [][\A O \in DOMAIN connectionsPromised :
             promises'[connectionsPromised[O]] # promises[connectionsPromised[O]]
                => (ReadyStep /\ last'.origin = O)]_vars

\* the promise of one origin is resolved, the promise of the other is still
\* pending although requests and responses have been going on
C9_Witness ==
    /\ \E O1, O2 \in DOMAIN connectionsPromised :
          /\ promises[connectionsPromised[O1]].state = "resolved"
          /\ promises[connectionsPromised[O2]].state = "pending"
    /\ Len(issued) = 2
    /\ last.op = "handleMessage"
    /\ last.type = MESSAGE_TYPE_RESPONSE
    /\ last.hit

(* ------------------------------ C10 ------------------------------------ *)

\* e.data lacks the discriminant, or carries one that is none of the three
Malformed(e) ==
    \/ e.data.kind # "object"
    \/ "type" \notin DOMAIN e.data.obj
    \/ e.data.obj.type \notin
          {MESSAGE_TYPE_READY, MESSAGE_TYPE_REQUEST, MESSAGE_TYPE_RESPONSE}

\* C10: a message event whose data has no type field, is not a record at all
\* (null, for one) or has a type other than ready, request and response is
\* ignored: handleMessage raises nothing and the slots, connections and
\* pending requests stay as they are.
C10_MalformedIgnored ==
    [][\A e \in Events :
          ( /\ last'.op = "handleMessage"
            /\ e.origin = last'.origin
            /\ Malformed(e)
            /\ handleMessage(e) )
          => /\ raised' = "none"
             /\ UNCHANGED observable]_vars

(* ------------------------------ C11 ------------------------------------ *)

\* the origin of the connection the request call r was made on
OriginOf(r) == connections[r.connection].origin

\* the (origin, id) key of the request call r, as a string
KeyOf(r) == OriginOf(r) \o "/" \o ToString(r.id)

\* the request call r has a pending entry: its key is in the table and
\* leads to its promise
HasEntry(table, r) ==
    KeyOf(r) \in DOMAIN table /\ table[KeyOf(r)] = r.promise

\* C11: a request is settled at most once and its entry is removed exactly
\* once.  A settled request has no entry; the step that settles a request
\* removes its entry; and no later step changes a settled request's outcome
\* or value or brings its entry back.
C11_SettledHasNoEntry ==
    \A k \in DOMAIN issued :
        promises[issued[k].promise].state # "pending" =>
            ~HasEntry(responseHandlers, issued[k])

C11_SettledOnce ==
    /\ []C11_SettledHasNoEntry
    /\ [][\A k \in DOMAIN issued :
             LET r == issued[k]
             IN  /\ promises[r.promise].state # "pending" =>
                        /\ promises'[r.promise] = promises[r.promise]
                        /\ ~HasEntry(responseHandlers', r)
                 /\ (promises[r.promise].state = "pending" /\
                     promises'[r.promise].state # "pending") =>
                        /\ HasEntry(responseHandlers, r)
                        /\ KeyOf(r) \notin DOMAIN responseHandlers']_vars

\* the only request made was rejected, and a further RESPONSE from its
\* origin has just been handled and matched nothing
C11_Witness ==
    /\ last.op = "handleMessage"
    /\ last.type = MESSAGE_TYPE_RESPONSE
    /\ ~last.hit
    /\ Len(issued) = 1
    /\ last.origin = OriginOf(issued[1])
    /\ promises[issued[1].promise] =
          [state |-> "rejected", value |-> DataValue("denied")]

(* ------------------------------ C12 ------------------------------------ *)

\* C12: once a READY has settled the connect promise of origin O, a further
\* READY from O is ignored: no second Connection is constructed, nothing
\* observable changes, and connect(O) keeps yielding the first Connection
\* with its window and its counter.
C12_DuplicateReadyIgnored ==
    [][( /\ ReadyStep
         /\ last'.origin \in DOMAIN connectionsPromised
         /\ promises[connectionsPromised[last'.origin]].state # "pending" )
          => /\ constructed' = constructed
             /\ UNCHANGED <<connectionsPromised, connectionsRequested,
                            responseHandlers, promises, connections>>]_vars

\* what does hold of a further READY: the promise of connect(O) and the
\* Connection it was resolved with, counter included, stay as they are
C12_FirstConnectionKept ==
    [][( /\ ReadyStep
         /\ last'.origin \in DOMAIN connectionsPromised
         /\ promises[connectionsPromised[last'.origin]].state # "pending" )
          => UNCHANGED <<connectionsPromised, connectionsRequested,
                         responseHandlers, promises, connections>>]_vars

(* ------------------------------ C13 ------------------------------------ *)

\* C13: the message listener is installed by the first connect call and
\* never again.  No listener is registered before any connect call and
\* exactly one after, however many connect calls were made and for whichever
\* origins; the flag says so; and a connect call made when the flag is set
\* registers nothing.
C13_ListenerInv ==
    /\ listeners = IF DOMAIN connectReturns = {} THEN 0 ELSE 1
    /\ addedMessageListener = (listeners = 1)

C13_OneListener ==
    /\ []C13_ListenerInv
    /\ [][(last'.op = "connect" /\ addedMessageListener)
             => listeners' = listeners]_vars

\* connect was called for both origins, for one of them again after
\* messages had been handled, and one listener is registered
C13_Witness ==
    /\ listeners = 1
    /\ last.op = "connect"
    /\ last.hit
    /\ Cardinality(DOMAIN connectReturns) = 2
    /\ Len(issued) = 1
    /\ promises[issued[1].promise].state = "resolved"

(* ------------------------------ C14 ------------------------------------ *)

\* C14: origins are checked on receive and on send.  A pending request on
\* the connection bound to O changes state only in a step that handles a
\* RESPONSE whose event origin is O; a RESPONSE from another origin, whatever
\* id it carries, leaves the request pending and its entry in place; and
\* every REQUEST message was posted to the connection's window with the
\* connection's origin as target origin.
C14_SentToBoundOrigin ==
    /\ Len(posted) = Len(issued)
    /\ \A i \in DOMAIN posted :
          /\ posted[i].message.type = "request"
          /\ posted[i].targetOrigin = OriginOf(issued[i])
          /\ posted[i].target = connections[issued[i].connection].messageFrame

C14_OriginChecked ==
    /\ []C14_SentToBoundOrigin
    /\ [][\A k \in DOMAIN issued :
             LET r == issued[k]
             IN  promises[r.promise].state = "pending" =>
                   /\ promises'[r.promise] # promises[r.promise] =>
                         (ResponseStep /\ last'.origin = OriginOf(r))
                   /\ (ResponseStep /\ last'.origin # OriginOf(r)) =>
                         /\ promises'[r.promise] = promises[r.promise]
                         /\ HasEntry(responseHandlers, r) =>
                               HasEntry(responseHandlers', r)]_vars

\* requests with id 0 are outstanding on the connections of both origins,
\* and a RESPONSE from the second origin has just settled the second one
\* only
C14_Witness ==
    /\ last.op = "handleMessage"
    /\ last.type = MESSAGE_TYPE_RESPONSE
    /\ last.hit
    /\ Len(issued) = 2
    /\ issued[1].id = 0
    /\ issued[2].id = 0
    /\ OriginOf(issued[1]) # OriginOf(issued[2])
    /\ last.origin = OriginOf(issued[2])
    /\ promises[issued[2].promise].state # "pending"
    /\ promises[issued[1].promise].state = "pending"
    /\ HasEntry(responseHandlers, issued[1])

(* ------------------------------ C15 ------------------------------------ *)

\* C15: there is no timeout and no cancellation.  In every step, a pending
\* request either stays pending with its entry in the table, or the step
\* handles a RESPONSE of the request's origin that carries the request's id.
\* So under connect, request, READY, other RESPONSEs and malformed messages
\* the request stays pending and its entry resident.
C15_OnlyItsResponse ==
    [][\A k \in DOMAIN issued :
          LET r == issued[k]
          IN  promises[r.promise].state = "pending" =>
                \/ /\ promises'[r.promise] = promises[r.promise]
                   /\ HasEntry(responseHandlers', r)
                \/ /\ ResponseStep
                   /\ last'.origin = OriginOf(r)
                   /\ \A e \in Events : ResponseOfStep(e) =>
                         /\ "id" \in DOMAIN e.data.obj
                         /\ e.data.obj.id = r.id]_vars

\* a request is still pending with its entry in the table although a later
\* request was made and answered and a malformed message has just been
\* handled
C15_Witness ==
    /\ last.op = "handleMessage"
    /\ last.type = "TypeError"
    /\ Len(issued) = 2
    /\ promises[issued[1].promise].state = "pending"
    /\ HasEntry(responseHandlers, issued[1])
    /\ promises[issued[2].promise].state # "pending"

(* ------------------------------ C16 ------------------------------------ *)

\* every promise that exists before the step is the same after it
PromisesKept ==
    \A p \in DOMAIN promises :
        p \in DOMAIN promises' /\ promises'[p] = promises[p]

\* every slot and every pending entry that exists before the step is the
\* same after it
SlotsKept ==
    /\ \A O \in DOMAIN connectionsPromised :
          /\ O \in DOMAIN connectionsPromised'
          /\ connectionsPromised'[O] = connectionsPromised[O]
    /\ \A O \in DOMAIN connectionsRequested :
          /\ O \in DOMAIN connectionsRequested'
          /\ connectionsRequested'[O] = connectionsRequested[O]

EntriesKept ==
    \A key \in DOMAIN responseHandlers :
        /\ key \in DOMAIN responseHandlers'
        /\ responseHandlers'[key] = responseHandlers[key]

\* C16: connect and request only insert.  A connect call leaves the
\* pending-request table, the connections and all existing slots and
\* promises as they are and adds at most the slot of its origin; a request
\* call leaves the slots, the other connections, the existing entries and
\* promises as they are, adds one entry and advances its own connection's
\* counter; neither settles a promise nor removes an entry.
C16_OnlyInserts ==
    [][/\ last'.op = "connect" =>
            /\ responseHandlers' = responseHandlers
            /\ connections' = connections
            /\ SlotsKept
            /\ PromisesKept
            /\ DOMAIN connectionsPromised' \subseteq
                  DOMAIN connectionsPromised \cup {last'.origin}
            /\ DOMAIN connectionsRequested' \subseteq
                  DOMAIN connectionsRequested \cup {last'.origin}
       /\ last'.op = "request" =>
            /\ connectionsPromised' = connectionsPromised
            /\ connectionsRequested' = connectionsRequested
            /\ EntriesKept
            /\ Cardinality(DOMAIN responseHandlers') =
                  Cardinality(DOMAIN responseHandlers) + 1
            /\ PromisesKept
            /\ DOMAIN connections' = DOMAIN connections
            /\ \A c \in DOMAIN connections :
                  connections'[c] =
                     IF c = Final(issued').connection
                     THEN [connections[c] EXCEPT !.nextId = @ + 1]
                     ELSE connections[c]]_vars

\* connect has just inserted the slot of a second origin while the first
\* origin had one request settled and one pending
C16_Witness ==
    /\ last.op = "connect"
    /\ ~last.hit
    /\ Len(issued) = 2
    /\ promises[issued[1].promise].state # "pending"
    /\ promises[issued[2].promise].state = "pending"
    /\ HasEntry(responseHandlers, issued[2])

(* ------------------------------ C17 ------------------------------------ *)

\* the origins whose connect promise has been resolved
Connected ==
    {O \in DOMAIN connectionsPromised :
        promises[connectionsPromised[O]].state = "resolved"}

\* the connection connect(O) yields, for O in Connected
ConnectionOf(O) == connections[promises[connectionsPromised[O]].value.ref]

\* C17: the counter of the connection obtained through connect(O) equals
\* the number of request calls made on it; every entry of the pending-request
\* table is (O, i) for a connected origin O and an i below that counter.
C17_CounterInv ==
    /\ \A O \in Connected :
          ConnectionOf(O).nextId =
             Len(IssuedOn(promises[connectionsPromised[O]].value.ref))
    /\ \A key \in DOMAIN responseHandlers :
          \E O \in Connected :
              \E i \in 0 .. ConnectionOf(O).nextId - 1 :
                  key = O \o "/" \o ToString(i)

\* two requests were made on one connection and the first was answered:
\* the counter is 2 and the table holds the entry of id 1 alone, while the
\* other origin's connect promise is still pending
C17_Witness ==
    /\ \E O \in Connected :
          /\ ConnectionOf(O).nextId = 2
          /\ DOMAIN responseHandlers = {O \o "/1"}
    /\ \E O \in DOMAIN connectionsPromised : O \notin Connected

(* ------------------------------ C18 ------------------------------------ *)

\* the request calls whose promise is pending
PendingCalls ==
    {k \in DOMAIN issued : promises[issued[k].promise].state = "pending"}

\* C18: every issued request is pending, resolved or rejected, and has an
\* entry in the pending-request table exactly when it is pending; every
\* entry belongs to an issued request; so the table has as many entries as
\* there are pending requests.  Step by step, the number of entries goes up
\* by one with a request call and down by one with a RESPONSE that matched
\* an entry, and is otherwise unchanged.
C18_EntryIffPending ==
    /\ \A k \in DOMAIN issued :
          /\ promises[issued[k].promise].state \in
                {"pending", "resolved", "rejected"}
          /\ HasEntry(responseHandlers, issued[k]) <=> k \in PendingCalls
    /\ \A key \in DOMAIN responseHandlers :
          \E k \in DOMAIN issued :
              KeyOf(issued[k]) = key /\ HasEntry(responseHandlers, issued[k])
    /\ Cardinality(DOMAIN responseHandlers) = Cardinality(PendingCalls)

C18_Conservation ==
    /\ []C18_EntryIffPending
    /\ [][Cardinality(DOMAIN responseHandlers') -
             Cardinality(DOMAIN responseHandlers)
          = (IF last'.op = "request" THEN 1 ELSE 0)
            - (IF ResponseStep /\ last'.hit THEN 1 ELSE 0)]_vars

\* of two requests, one is resolved and one is rejected, and a further
\* RESPONSE has just matched nothing: the table is empty
C18_Witness ==
    /\ Len(issued) = 2
    /\ promises[issued[1].promise].state = "resolved"
    /\ promises[issued[2].promise].state = "rejected"
    /\ responseHandlers = EmptyMap
    /\ last.op = "handleMessage"
    /\ last.type = MESSAGE_TYPE_RESPONSE
    /\ ~last.hit

(* ------------------------------ C19 ------------------------------------ *)

\* C19: the handshake comes first.  Every REQUEST message posted so far has
\* as target origin an origin whose connect promise has been resolved (which
\* takes a connect call and a READY from that origin); a request call is made
\* on the connection of such an origin; and a RESPONSE step that settles a
\* promise has the origin of a connection already established.
C19_PostedAfterHandshake ==
    \A i \in DOMAIN posted : posted[i].targetOrigin \in Connected

C19_HandshakeFirst ==
    /\ []C19_PostedAfterHandshake
    /\ [][/\ last'.op = "request" =>
               /\ last'.origin \in Connected
               /\ Final(posted').targetOrigin = last'.origin
          /\ (ResponseStep /\ promises' # promises) =>
               last'.origin \in Connected]_vars

\* a request was posted to the one origin whose handshake has completed and
\* a RESPONSE has settled it, while connect for the other origin is still
\* waiting for its READY
C19_Witness ==
    /\ last.op = "handleMessage"
    /\ last.type = MESSAGE_TYPE_RESPONSE
    /\ last.hit
    /\ Len(posted) = 1
    /\ Cardinality(Connected) = 1
    /\ Cardinality(DOMAIN connectionsPromised) = 2
    /\ posted[1].targetOrigin \in Connected

(* ------------------------------ C20 ------------------------------------ *)

\* the pending-request table holds no entry of origin O
NoEntryOf(O) ==
    \A i \in Ids : (O \o "/" \o ToString(i)) \notin DOMAIN responseHandlers

\* C20: with extensions that send READY after connect and answer every
\* REQUEST with its id, and with every such message eventually delivered,
\* the promise of connect(O) is eventually resolved, every request promise
\* is eventually settled, and the table eventually holds no entry of O and
\* stays so once the requests have come to an end (in a run of the model
\* they always do).
C20_Liveness ==
    /\ \A O \in Origins :
          (O \in DOMAIN connectionsPromised) ~> (O \in Connected)
    /\ \A k \in 1 .. MaxRequests :
          (Len(issued) >= k) ~>
              (/\ Len(issued) >= k
               /\ promises[issued[k].promise].state # "pending")
    /\ \A O \in Origins : <>[]NoEntryOf(O)

\* both origins are connected, every request the run may make was made on
\* one connection and answered, and the table is empty
C20_Witness ==
    /\ Connected = Origins
    /\ Len(issued) = MaxRequests
    /\ \A k \in DOMAIN issued :
          /\ promises[issued[k].promise].state # "pending"
          /\ issued[k].connection = issued[1].connection
    /\ responseHandlers = EmptyMap

====
